---- MODULE Spec2Model ----
(***************************************************************************)
(* S3Writer.touch_object and S3Writer.batch_touch_objects of               *)
(* src/src/s3/write/s3_writer.py, run against an S3 backend that holds one *)
(* bucket.  A touch is three backend calls (head_object, copy_object,      *)
(* head_object); every call is one step, so that another writer and a      *)
(* backend failure can fall between any two of them.                        *)
(*                                                                         *)
(* Spec       touch_object and batch_touch_objects                         *)
(* SpecDelete S3Writer.delete_bucket and S3Writer._empty_bucket against a  *)
(*            bucket that holds object versions and delete markers         *)
(* SpecRace   touch_object while another process runs touch_object on the *)
(*            same bucket, with every interleaving of their backend calls  *)
(* SpecClient AWSClientManager of src/src/common/aws_client.py: its        *)
(*            constructor and get_client against the SDK                   *)
(***************************************************************************)
EXTENDS Integers, Sequences, FiniteSets, TLC

VARIABLES
    buckets,    \* the buckets that exist in the backend
    store,      \* the objects of TheBucket
    clock,      \* the backend's clock
    now,        \* the local clock: the last reading of datetime.now
    pc,         \* "idle", the next backend call of the touch, or "done"
    call,       \* the arguments of the call of the public method; op is
                \* "touch", "batch", or "batch_none" for object_keys=None
    i,          \* batch_touch_objects: position of object_key in object_keys
    frame,      \* touch_object: head_response, metadata, copy_response
    results,    \* batch_touch_objects: results
    touchLog,   \* history: the outcome of every touch_object of the call
    callLog,    \* history: the backend calls issued by the call
    ret,        \* what the public method returned or raised
    faults,     \* backend failures injected so far
    envWrites,  \* writes by another writer so far
    listing,    \* the object versions and delete markers of TheBucket
    manager,    \* the AWSClientManager: its fields, or why there is none
    sdkLog,     \* history: the calls the manager made to the SDK
    getLog,     \* history: the outcome of every get_client
    peer        \* a touch_object that another process runs at the same time

vars == <<buckets, store, clock, now, pc, call, i, frame, results, touchLog,
          callLog, ret, faults, envWrites, listing, manager, sdkLog, getLog,
          peer>>

----------------------------------------------------------------------------
(* Bounds *)

MaxBatch  == 3   \* longest object_keys list
MaxFaults == 1   \* backend failures injected (besides missing objects)
MaxEnv    == 1   \* writes by another writer
MaxEntries == 3  \* versions and delete markers in the bucket to delete
MaxGets   == 3   \* get_client calls on the manager

----------------------------------------------------------------------------
(* Values *)

TheBucket   == "b"
Keys        == {"x", "y"}
TouchedAt   == "touched-at"

EmptyMap == [k \in {} |-> ""]

\* dict.update(other): the entries of other win
Update(m, other) ==
    [k \in DOMAIN m \cup DOMAIN other |->
        IF k \in DOMAIN other THEN other[k] ELSE m[k]]

\* metadata[key] = value
SetItem(m, key, value) == Update(m, [k \in {key} |-> value])

\* datetime.now(timezone.utc).isoformat() of the local clock reading t
IsoFormat(t) == "T" \o ToString(t)

Range(s) == {s[n] : n \in DOMAIN s}

BoundedSeq(S, n) == UNION {[1..m -> S] : m \in 0..n}

\* Optional[Dict]: None, or a dict
None     == [some |-> FALSE, v |-> EmptyMap]
Some(m)  == [some |-> TRUE, v |-> m]
\* truth value of an Optional[Dict] in "if custom_metadata:"
Truthy(o) == o.some /\ DOMAIN o.v # {}

----------------------------------------------------------------------------
(* The backend: at most one bucket, TheBucket, and its objects *)

NoObj == [exists |-> FALSE, meta |-> EmptyMap, lm |-> 0, etag |-> "",
          body |-> "", headers |-> EmptyMap]

\* x has been touched before (at local time 0), y carries no metadata
InitMeta ==
    [k \in Keys |->
        IF k = "x"
        THEN ("a" :> "1") @@ ("k" :> "1") @@ (TouchedAt :> "T0")
        ELSE EmptyMap]

InitHeaders ==
    [k \in Keys |->
        IF k = "x"
        THEN ("ContentType" :> "text/plain") @@ ("ContentEncoding" :> "gzip")
        ELSE ("CacheControl" :> "no-cache")]

\* the payload bytes of k and the checksum derived from them
InitBody(k) == "bytes of " \o k
Checksum(body) == "md5 of " \o body

InitObj(k) == [exists |-> TRUE, meta |-> InitMeta[k], lm |-> 0,
               etag |-> Checksum(InitBody(k)), body |-> InitBody(k),
               headers |-> InitHeaders[k]]

InitStores ==
    {[k \in Keys |-> IF k \in present THEN InitObj(k) ELSE NoObj] :
        present \in SUBSET Keys}

NoStore == [k \in Keys |-> NoObj]

\* Exceptions: the type, str(e), and for a botocore ClientError the error
\* code of e.response['Error']['Code']; context is the exception that was
\* being handled when this one was raised (__context__), as a sequence of
\* at most one exception.
NoExc == [type |-> "", str |-> <<>>, code |-> "", context |-> <<>>]

\* raise new while handling e: new.__context__ is e
DuringHandling(new, e) == [new EXCEPT !.context = <<e>>]

ClientError(code, op) ==
    [type |-> "ClientError",
     str  |-> <<"An error occurred (", code, ") when calling the ", op,
                " operation: ", code>>,
     code |-> code, context |-> <<>>]

BotoCoreError(op) ==
    [type |-> "EndpointConnectionError",
     str  |-> <<"Could not connect to the endpoint URL">>,
     code |-> "", context |-> <<>>]

\* error codes of a missing key: HeadObject has no body and reports 404
HeadNotFoundCodes == {"404", "NoSuchKey"}
FaultCodes        == {"AccessDenied", "SlowDown"}

Injected(op) ==
    {ClientError(c, op) : c \in FaultCodes} \cup {BotoCoreError(op)}

\* head_object(Bucket, Key): the exceptions it raises when it fails by itself
HeadErrors(bs, s, bucket, key) ==
    IF bucket \notin bs
    THEN {ClientError("NoSuchBucket", "HeadObject")}
    ELSE IF ~s[key].exists
    THEN {ClientError(c, "HeadObject") : c \in HeadNotFoundCodes}
    ELSE {}

\* head_object(Bucket, Key): the responses of a successful call; a backend
\* may leave out 'Metadata' when the object has none
HeadResponses(s, key) ==
    {[hasMetadata  |-> hm,
      Metadata     |-> s[key].meta,
      LastModified |-> s[key].lm,
      ETag         |-> <<"\"", s[key].etag, "\"">>,
      Headers      |-> s[key].headers] :
        hm \in IF DOMAIN s[key].meta = {} THEN BOOLEAN ELSE {TRUE}}

\* copy_object(**copy_args): the exceptions it raises when it fails by itself
CopyErrors(bs, s, args) ==
    IF args.Bucket \notin bs \/ args.CopySource.Bucket \notin bs
    THEN {ClientError("NoSuchBucket", "CopyObject")}
    ELSE IF ~s[args.CopySource.Key].exists
    THEN {ClientError("NoSuchKey", "CopyObject")}
    ELSE {}

\* the backend merges the metadata of the request into that of the object
CopiedObj_MergesMetadata(s, args, t) ==
    LET src == s[args.CopySource.Key] IN
    [exists  |-> TRUE,
     meta    |-> Update(s[args.Key].meta, args.Metadata),
     lm      |-> t,
     etag    |-> src.etag,
     body    |-> src.body,
     headers |-> IF args.MetadataDirective = "REPLACE"
                 THEN args.Headers ELSE src.headers]

\* copy_object(**copy_args): the object written at the destination at
\* backend time t
CopiedObj(s, args, t) ==
    LET src == s[args.CopySource.Key] IN
    [exists  |-> TRUE,
     meta    |-> IF args.MetadataDirective = "REPLACE"
                 THEN args.Metadata ELSE src.meta,
     lm      |-> t,
     etag    |-> src.etag,
     body    |-> src.body,
     headers |-> IF args.MetadataDirective = "REPLACE"
                 THEN args.Headers ELSE src.headers]

CopyResponse(obj) ==
    [CopyObjectResult |-> [ETag |-> <<"\"", obj.etag, "\"">>],
     VersionId |-> "None"]

\* str.strip('"') of a string given as its pieces
RECURSIVE LStrip(_)
LStrip(s) == IF s # <<>> /\ Head(s) = "\"" THEN LStrip(Tail(s)) ELSE s
RECURSIVE RStrip(_)
RStrip(s) == IF s # <<>> /\ s[Len(s)] = "\""
             THEN RStrip(SubSeq(s, 1, Len(s) - 1)) ELSE s
Strip(s) == RStrip(LStrip(s))

----------------------------------------------------------------------------
(* common/exceptions.py *)

\* what calling a class whose __init__(self, message) takes one argument
\* gives for the argument list args
TypeErrorArity(cls, args) ==
    [type |-> "TypeError",
     str  |-> <<cls \o ".__init__() takes 2 positional arguments but ",
                ToString(Len(args) + 1), " were given">>,
     code |-> "", context |-> <<>>]

AWSResourceError(args) ==
    IF Len(args) # 1
    THEN TypeErrorArity("AWSResourceError", args)
    ELSE [type |-> "AWSResourceError", str |-> args[1], code |-> "",
          context |-> <<>>]

AWSPermissionError(args) ==
    IF Len(args) # 1
    THEN TypeErrorArity("AWSPermissionError", args)
    ELSE [type |-> "AWSPermissionError",
          str |-> <<"Permission denied: ">> \o args[1], code |-> "",
          context |-> <<>>]

AWSConnectionError(args) ==
    IF Len(args) # 1
    THEN TypeErrorArity("AWSConnectionError", args)
    ELSE [type |-> "AWSConnectionError",
          str |-> <<"AWS connection failed: ">> \o args[1], code |-> "",
          context |-> <<>>]

AWSResourceException(args)   == AWSResourceError(args)
AWSPermissionException(args) == AWSPermissionError(args)
AWSConnectionException(args) == AWSConnectionError(args)

----------------------------------------------------------------------------
(* S3Writer.touch_object *)

ForwardedHeaders == {"ContentType", "ContentEncoding", "CacheControl"}

\* the existing metadata is applied on top of custom_metadata
MergeMetadata_ExistingWins(head_response, preserve_metadata, custom_metadata, t) ==
    LET m0 == EmptyMap
        m1 == IF Truthy(custom_metadata)
              THEN Update(m0, custom_metadata.v) ELSE m0
        m2 == IF preserve_metadata /\ head_response.hasMetadata
              THEN Update(m1, head_response.Metadata) ELSE m1
    IN  SetItem(m2, TouchedAt, IsoFormat(t))

\* the touch timestamp is set before custom_metadata is applied
MergeMetadata_StampFirst(head_response, preserve_metadata, custom_metadata, t) ==
    LET m0 == EmptyMap
        m1 == IF preserve_metadata /\ head_response.hasMetadata
              THEN Update(m0, head_response.Metadata) ELSE m0
        m2 == SetItem(m1, TouchedAt, IsoFormat(t))
    IN  IF Truthy(custom_metadata) THEN Update(m2, custom_metadata.v) ELSE m2

\* lines 362-372: the metadata sent with the copy, t being the local time
MergeMetadata(head_response, preserve_metadata, custom_metadata, t) ==
    LET m0 == EmptyMap
        m1 == IF preserve_metadata /\ head_response.hasMetadata
              THEN Update(m0, head_response.Metadata) ELSE m0
        m2 == IF Truthy(custom_metadata)
              THEN Update(m1, custom_metadata.v) ELSE m1
    IN  SetItem(m2, TouchedAt, IsoFormat(t))

\* the copy is sent without the REPLACE directive
CopyArgs_DirectiveCopy(bucket_name, object_key, head_response, metadata) ==
    [Bucket            |-> bucket_name,
     Key               |-> object_key,
     CopySource        |-> [Bucket |-> bucket_name, Key |-> object_key],
     MetadataDirective |-> "COPY",
     Metadata          |-> metadata,
     Headers           |-> [h \in DOMAIN head_response.Headers \cap
                                  {"ContentType", "ContentEncoding",
                                   "CacheControl"} |->
                               head_response.Headers[h]]]

\* the copy takes another object of the bucket as its source
CopyArgs_OtherSource(bucket_name, object_key, head_response, metadata) ==
    [Bucket            |-> bucket_name,
     Key               |-> object_key,
     CopySource        |-> [Bucket |-> bucket_name,
                            Key |-> CHOOSE o \in Keys : o # object_key],
     MetadataDirective |-> "REPLACE",
     Metadata          |-> metadata,
     Headers           |-> [h \in DOMAIN head_response.Headers \cap
                                  {"ContentType", "ContentEncoding",
                                   "CacheControl"} |->
                               head_response.Headers[h]]]

\* CacheControl is not forwarded
CopyArgs_NoCacheControl(bucket_name, object_key, head_response, metadata) ==
    [Bucket            |-> bucket_name,
     Key               |-> object_key,
     CopySource        |-> [Bucket |-> bucket_name, Key |-> object_key],
     MetadataDirective |-> "REPLACE",
     Metadata          |-> metadata,
     Headers           |-> [h \in DOMAIN head_response.Headers \cap
                                  {"ContentType", "ContentEncoding"} |->
                               head_response.Headers[h]]]

\* the copy is written to another key of the bucket
CopyArgs_OtherDestination(bucket_name, object_key, head_response, metadata) ==
    [Bucket            |-> bucket_name,
     Key               |-> CHOOSE o \in Keys : o # object_key,
     CopySource        |-> [Bucket |-> bucket_name, Key |-> object_key],
     MetadataDirective |-> "REPLACE",
     Metadata          |-> metadata,
     Headers           |-> [h \in DOMAIN head_response.Headers \cap
                                  {"ContentType", "ContentEncoding",
                                   "CacheControl"} |->
                               head_response.Headers[h]]]

\* lines 355-386: the arguments of the copy
CopyArgs(bucket_name, object_key, head_response, metadata) ==
    [Bucket            |-> bucket_name,
     Key               |-> object_key,
     CopySource        |-> [Bucket |-> bucket_name, Key |-> object_key],
     MetadataDirective |-> "REPLACE",
     Metadata          |-> metadata,
     Headers           |-> [h \in DOMAIN head_response.Headers \cap
                                  ForwardedHeaders |->
                               head_response.Headers[h]]]

\* dict.get(key) with default None
Get(m, key) == IF key \in DOMAIN m THEN m[key] ELSE "None"

\* new_last_modified is taken from the first fetch
TouchResult_StaleTimestamp(bucket_name, object_key, head_response, updated_head, copy_response, metadata) ==
    [bucket_name            |-> bucket_name,
     object_key             |-> object_key,
     previous_last_modified |-> head_response.LastModified,
     new_last_modified      |-> head_response.LastModified,
     etag                   |-> Strip(copy_response.CopyObjectResult.ETag),
     version_id             |-> copy_response.VersionId,
     metadata               |-> metadata,
     touched_at             |-> Get(metadata, TouchedAt),
     operation              |-> "touch_successful"]

\* previous_last_modified is taken from the re-fetch
TouchResult_PreviousFromRefetch(bucket_name, object_key, head_response, updated_head, copy_response, metadata) ==
    [bucket_name            |-> bucket_name,
     object_key             |-> object_key,
     previous_last_modified |-> updated_head.LastModified,
     new_last_modified      |-> updated_head.LastModified,
     etag                   |-> Strip(copy_response.CopyObjectResult.ETag),
     version_id             |-> copy_response.VersionId,
     metadata               |-> metadata,
     touched_at             |-> Get(metadata, TouchedAt),
     operation              |-> "touch_successful"]

\* lines 396-406: the value returned
TouchResult(bucket_name, object_key, head_response, updated_head, copy_response, metadata) ==
    [bucket_name            |-> bucket_name,
     object_key             |-> object_key,
     previous_last_modified |-> head_response.LastModified,
     new_last_modified      |-> updated_head.LastModified,
     etag                   |-> Strip(copy_response.CopyObjectResult.ETag),
     version_id             |-> copy_response.VersionId,
     metadata               |-> metadata,
     touched_at             |-> Get(metadata, TouchedAt),
     operation              |-> "touch_successful"]

\* lines 408-415: what leaves touch_object when a backend call raises e
TouchExcept(e, bucket_name, object_key) ==
    IF e.type # "ClientError" THEN e
    ELSE DuringHandling(
        IF e.code = "NoSuchBucket"
        THEN AWSResourceException(<<"S3", "touch_object",
                 <<"Bucket '", bucket_name, "' does not exist">> >>)
        ELSE IF e.code = "NoSuchKey"
        THEN AWSResourceException(<<"S3", "touch_object",
                 <<"Object '", object_key, "' does not exist in bucket '",
                   bucket_name, "'">> >>)
        ELSE IF e.code = "AccessDenied"
        THEN AWSPermissionException(<<"S3", "touch_object", e.str>>)
        ELSE AWSResourceException(<<"S3", "touch_object", e.str>>), e)

Returned(v) == [ok |-> TRUE,  val |-> v,    exc |-> NoExc]
Raised(e)   == [ok |-> FALSE, val |-> <<>>, exc |-> e]

----------------------------------------------------------------------------
(* S3Writer.batch_touch_objects *)

\* lines 435-442
NewResults(bucket_name, object_keys) ==
    [bucket_name        |-> bucket_name,
     total_objects      |-> Len(object_keys),
     successful_touches |-> 0,
     failed_touches     |-> 0,
     touched_objects    |-> <<>>,
     failed_objects     |-> <<>>]

\* a clause that catches the library's own exceptions only
ExceptException_LibraryOnly(e) ==
    e.type \in {"AWSResourceError", "AWSPermissionError"}

\* "except Exception": every exception type of the model derives from it
ExceptException(e) == TRUE

\* the record takes the timestamp of the first fetch
RecordSuccess_Previous(r, object_key, touch_result) ==
    [r EXCEPT !.successful_touches = @ + 1,
              !.touched_objects = Append(@,
                  [object_key        |-> object_key,
                   new_last_modified |-> touch_result.previous_last_modified,
                   touched_at        |-> touch_result.touched_at])]

\* lines 452-457
RecordSuccess(r, object_key, touch_result) ==
    [r EXCEPT !.successful_touches = @ + 1,
              !.touched_objects = Append(@,
                  [object_key        |-> object_key,
                   new_last_modified |-> touch_result.new_last_modified,
                   touched_at        |-> touch_result.touched_at])]

\* the failure is counted but not recorded
RecordFailure_NoAppend(r, object_key, e) ==
    [r EXCEPT !.failed_touches = @ + 1]

\* the failure record goes to the front of the list
RecordFailure_Prepend(r, object_key, e) ==
    [r EXCEPT !.failed_touches = @ + 1,
              !.failed_objects =
                  <<[object_key |-> object_key, error |-> e.str]>> \o @]

\* lines 460-464
RecordFailure(r, object_key, e) ==
    [r EXCEPT !.failed_touches = @ + 1,
              !.failed_objects = Append(@,
                  [object_key |-> object_key, error |-> e.str])]

\* lines 470-471
BatchExcept(e) ==
    DuringHandling(
        AWSResourceException(<<"S3", "batch_touch_objects",
            <<"Batch touch operation failed: ">> \o e.str>>), e)

----------------------------------------------------------------------------
(* The backend: the version listing of TheBucket *)

\* an object version, or a delete marker
Entry(k, v, m) == [Key |-> k, VersionId |-> v, IsMarker |-> m]

\* every entry the bucket can hold, in the order list_object_versions reports
\* them (by key, newest first); the "d9" markers are those that a delete
\* without VersionId puts on top of a key
Master ==
    <<Entry("x", "d9", TRUE), Entry("x", "v2", TRUE), Entry("x", "v1", FALSE),
      Entry("x", "null", FALSE),
      Entry("y", "d9", TRUE), Entry("y", "v2", FALSE),
      Entry("y", "null", FALSE)>>

Ord(e) == CHOOSE n \in DOMAIN Master : Master[n] = e

KeyOrd(k) == IF k = "x" THEN 1 ELSE 2

\* the entries of S in listing order
InOrder(S) == SelectSeq(Master, LAMBDA e : e \in S)

\* the listing of an unversioned bucket that holds the objects of s
ListingOf(s) ==
    InOrder({Entry(k, "null", FALSE) : k \in {q \in Keys : s[q].exists}})

\* key k has a current version: its newest entry is not a delete marker
HasCurrent(l, k) ==
    \E n \in DOMAIN l :
        /\ l[n].Key = k /\ ~l[n].IsMarker
        /\ \A m \in 1..(n - 1) : l[m].Key # k

\* the objects of a bucket whose listing is l
StoreOf(l) == [k \in Keys |-> IF HasCurrent(l, k) THEN InitObj(k) ELSE NoObj]

\* the listings a bucket starts with
Listings ==
    {InOrder(S) :
        S \in {T \in SUBSET {e \in Range(Master) : e.VersionId # "d9"} :
                  Cardinality(T) <= MaxEntries}}

\* entries per page of a listing call
PageSize == 2

Min(a, b) == IF a < b THEN a ELSE b

ObjId(e)  == [Key |-> e.Key, VersionId |-> e.VersionId]
KeyOnly(k) == [Key |-> k]

\* list_object_versions(Bucket): the page after marker
ListVersionsPage(l, marker) ==
    LET rest == SelectSeq(l, LAMBDA e : Ord(e) > marker)
        page == SubSeq(rest, 1, Min(PageSize, Len(rest)))
    IN  [Versions      |-> SelectSeq(page, LAMBDA e : ~e.IsMarker),
         DeleteMarkers |-> SelectSeq(page, LAMBDA e : e.IsMarker),
         IsTruncated   |-> Len(rest) > PageSize,
         NextMarker    |-> IF page = <<>> THEN marker
                           ELSE Ord(page[Len(page)])]

\* list_objects_v2(Bucket): the page of current objects after marker
ListObjectsPage(l, marker) ==
    LET ks   == SelectSeq(<<"x", "y">>,
                    LAMBDA k : HasCurrent(l, k) /\ KeyOrd(k) > marker)
        page == SubSeq(ks, 1, Min(PageSize, Len(ks)))
    IN  [Contents    |-> [n \in DOMAIN page |-> KeyOnly(page[n])],
         IsTruncated |-> Len(ks) > PageSize,
         NextMarker  |-> IF page = <<>> THEN marker
                         ELSE KeyOrd(page[Len(page)])]

\* delete_objects(Bucket, Delete) with version ids: those entries are gone
DeleteVersions(l, objs) ==
    SelectSeq(l, LAMBDA e : ObjId(e) \notin Range(objs))

\* delete_objects(Bucket, Delete) without version ids, versioning being
\* enabled: every key gets a delete marker on top
DeleteKeys(l, objs) ==
    InOrder(Range(l) \cup {Entry(o.Key, "d9", TRUE) : o \in Range(objs)})

\* the exceptions a call on the bucket raises when it fails by itself
BucketErrors(bs, bucket, op) ==
    IF bucket \notin bs THEN {ClientError("NoSuchBucket", op)} ELSE {}

\* delete_bucket(Bucket): a bucket that holds anything is not deleted
DeleteBucketErrors(bs, l, bucket) ==
    IF bucket \notin bs THEN {ClientError("NoSuchBucket", "DeleteBucket")}
    ELSE IF l # <<>> THEN {ClientError("BucketNotEmpty", "DeleteBucket")}
    ELSE {}

\* failures of a call of _empty_bucket that do not depend on the bucket
InjectedEmptying(op) == Injected(op) \cup {ClientError("NoSuchKey", op)}

----------------------------------------------------------------------------
(* The SDK as AWSClientManager sees it *)

\* Optional[str]: None, or a string
NoneStr == [some |-> FALSE, s |-> ""]
Str(t)  == [some |-> TRUE, s |-> t]
\* truth value of an Optional[str]
TruthyStr(o) == o.some /\ o.s # ""
\* a or b
Or(a, b) == IF TruthyStr(a) THEN a ELSE b
\* an Optional[str] inside an f-string
Format(o) == IF o.some THEN o.s ELSE "None"

Services    == {"s3", "sts"}
Profiles    == {"default", "dev"}
RegionArgs  == {NoneStr, Str(""), Str("None"), Str("r1"), Str("r2")}

ProfileNotFound(profile) ==
    [type |-> "ProfileNotFound",
     str  |-> <<"The config profile (", profile, ") could not be found">>,
     code |-> "", context |-> <<>>]

NoRegionError ==
    [type |-> "NoRegionError", str |-> <<"You must specify a region.">>,
     code |-> "", context |-> <<>>]

\* the exception types that derive from botocore's BotoCoreError
BotoCoreFamily == {"ProfileNotFound", "NoRegionError",
                   "EndpointConnectionError"}

\* boto3.Session(profile_name, region_name)
SessionErrors(profile) == {ProfileNotFound(profile)}

\* session.client('sts') without a region of its own
StsClientErrors(region) == IF TruthyStr(region) THEN {} ELSE {NoRegionError}

\* sts.get_caller_identity()
IdentityErrors ==
    {ClientError(c, "GetCallerIdentity") : c \in {"AccessDenied",
                                                  "ExpiredToken"}}
    \cup {BotoCoreError("GetCallerIdentity")}

\* the client that the n-th call to the SDK created
Client(n, service, region) ==
    [id |-> n, service |-> service, region |-> region]

----------------------------------------------------------------------------
(* State *)

NoFrame == [head_response |-> <<>>, metadata |-> EmptyMap,
            copy_response |-> <<>>]
NoCall  == [op |-> "none", bucket_name |-> "", object_keys |-> <<>>,
            preserve_metadata |-> TRUE, custom_metadata |-> None]
NoRet   == [op |-> "none", ok |-> TRUE, val |-> <<>>, exc |-> NoExc]

\* lines 32-35: the fields of a manager before its session is initialized;
\* state is "none" before the constructor ran, "built" when it returned the
\* manager, "failed" when it raised exc
NoManager == [state |-> "none", profile_name |-> "", region_name |-> NoneStr,
              session |-> <<>>, clients |-> EmptyMap, exc |-> NoExc]

\* the touch_object of the other process: where it is, its object_key, the
\* head_response of its first fetch, the backend time of its copy, and
\* whether it returned
NoPeer == [pc |-> "idle", key |-> "", head_response |-> <<>>,
           copyAt |-> 0, ok |-> FALSE]

CustomChoices ==
    {None, Some(EmptyMap), Some(("a" :> "2") @@ (TouchedAt :> "9"))}

Init ==
    /\ \/ buckets = {TheBucket} /\ store \in InitStores
       \/ buckets = {} /\ store = NoStore
    /\ clock = 0
    /\ now = 0
    /\ pc = "idle"
    /\ call = NoCall
    /\ i = 0
    /\ frame = NoFrame
    /\ results = NewResults("", <<>>)
    /\ touchLog = <<>>
    /\ callLog = <<>>
    /\ ret = NoRet
    /\ faults = 0
    /\ envWrites = 0
    /\ listing = ListingOf(store)
    /\ manager = NoManager
    /\ sdkLog = <<>>
    /\ getLog = <<>>
    /\ peer = NoPeer

\* the loop of line 444 runs through object_keys from its end
CurKey_Reversed == call.object_keys[Len(call.object_keys) - i + 1]

\* line 444: object_key
CurKey == call.object_keys[i]

\* the backend is called at local time t with operation op and request req
\* for the current key, and answers with resp (ok) or fails
Logged(op, t, req, ok, resp) ==
    callLog' = Append(callLog, [i |-> i, op |-> op, now |-> t, req |-> req,
                                ok |-> ok, resp |-> resp])

HeadArgs == [Bucket |-> call.bucket_name, Key |-> CurKey]

\* what a fetch leaves in head_response when its failure is swallowed
EmptyHead == [hasMetadata |-> FALSE, Metadata |-> EmptyMap,
              LastModified |-> 0, ETag |-> <<>>, Headers |-> EmptyMap]

\* touch_object is left with outcome o: the caller takes over.  Called
\* directly, o is the outcome of the call.  Called from the loop of
\* batch_touch_objects (lines 444-468), o is recorded and the loop goes on
\* with the next key or returns the results.
TouchFinish(o) ==
    /\ touchLog' = Append(touchLog, o)
    /\ frame' = NoFrame
    /\ IF call.op = "touch"
       THEN /\ ret' = [op |-> "touch", ok |-> o.ok, val |-> o.val,
                       exc |-> o.exc]
            /\ pc' = "done"
            /\ UNCHANGED <<i, results>>
       ELSE IF o.ok \/ ExceptException(o.exc)
       THEN /\ results' = IF o.ok
                          THEN RecordSuccess(results, CurKey, o.val)
                          ELSE RecordFailure(results, CurKey, o.exc)
            /\ i' = i + 1
            /\ IF i + 1 > Len(call.object_keys)
               THEN /\ pc' = "done"
                    /\ ret' = [op |-> "batch", ok |-> TRUE,
                               val |-> results', exc |-> NoExc]
               ELSE /\ pc' = "head1"
                    /\ ret' = ret
       ELSE /\ ret' = [op |-> "batch", ok |-> FALSE, val |-> <<>>,
                       exc |-> BatchExcept(o.exc)]
            /\ pc' = "done"
            /\ UNCHANGED <<i, results>>

StartTouch(bucket_name, object_key, preserve_metadata, custom_metadata) ==
    /\ pc = "idle"
    /\ call' = [op |-> "touch", bucket_name |-> bucket_name,
                object_keys |-> <<object_key>>,
                preserve_metadata |-> preserve_metadata,
                custom_metadata |-> custom_metadata]
    /\ i' = 1
    /\ pc' = "head1"
    /\ frame' = NoFrame
    /\ touchLog' = <<>>
    /\ callLog' = <<>>
    /\ ret' = NoRet
    /\ results' = NewResults("", <<>>)
    /\ UNCHANGED <<buckets, store, clock, now, faults, envWrites>>
    /\ UNCHANGED <<listing, manager, sdkLog, getLog>>
    /\ UNCHANGED peer

StartBatch(bucket_name, object_keys, preserve_metadata, custom_metadata) ==
    /\ pc = "idle"
    /\ call' = [op |-> "batch", bucket_name |-> bucket_name,
                object_keys |-> object_keys,
                preserve_metadata |-> preserve_metadata,
                custom_metadata |-> custom_metadata]
    /\ results' = NewResults(bucket_name, object_keys)
    /\ i' = 1
    /\ frame' = NoFrame
    /\ touchLog' = <<>>
    /\ callLog' = <<>>
    /\ IF object_keys = <<>>
       THEN /\ pc' = "done"
            /\ ret' = [op |-> "batch", ok |-> TRUE, val |-> results',
                       exc |-> NoExc]
       ELSE /\ pc' = "head1"
            /\ ret' = NoRet
    /\ UNCHANGED <<buckets, store, clock, now, faults, envWrites>>
    /\ UNCHANGED <<listing, manager, sdkLog, getLog>>
    /\ UNCHANGED peer

\* len(None) at line 437
LenOfNone ==
    [type |-> "TypeError",
     str  |-> <<"object of type 'NoneType' has no len()">>,
     code |-> "", context |-> <<>>]

\* batch_touch_objects(bucket_name, None, ...): line 437 raises inside the
\* outer try and lines 470-471 handle it
StartBatchNone(bucket_name, preserve_metadata, custom_metadata) ==
    /\ pc = "idle"
    /\ call' = [op |-> "batch_none", bucket_name |-> bucket_name,
                object_keys |-> <<>>,
                preserve_metadata |-> preserve_metadata,
                custom_metadata |-> custom_metadata]
    /\ results' = NewResults("", <<>>)
    /\ i' = 1
    /\ frame' = NoFrame
    /\ touchLog' = <<>>
    /\ callLog' = <<>>
    /\ pc' = "done"
    /\ ret' = [op |-> "batch", ok |-> FALSE, val |-> <<>>,
               exc |-> BatchExcept(LenOfNone)]
    /\ UNCHANGED <<buckets, store, clock, now, faults, envWrites>>
    /\ UNCHANGED <<listing, manager, sdkLog, getLog>>
    /\ UNCHANGED peer

\* a backend call of the touch fails with e
TouchFails(e) ==
    TouchFinish(Raised(TouchExcept(e, call.bucket_name, CurKey)))

\* a failed first fetch is tried again
Head1_Retries ==
    /\ pc = "head1"
    /\ \/ /\ HeadErrors(buckets, store, HeadArgs.Bucket, HeadArgs.Key) = {}
          /\ \E r \in HeadResponses(store, HeadArgs.Key) :
                /\ frame' = [frame EXCEPT !.head_response = r]
                /\ Logged("head_object", now, HeadArgs, TRUE, r)
          /\ pc' = "copy"
          /\ UNCHANGED <<i, results, touchLog, ret, faults>>
       \/ /\ \E e \in HeadErrors(buckets, store, HeadArgs.Bucket,
                                  HeadArgs.Key) :
                TouchFails(e)
          /\ Logged("head_object", now, HeadArgs, FALSE, <<>>)
          /\ UNCHANGED faults
       \/ /\ faults < MaxFaults
          /\ faults' = faults + 1
          /\ Logged("head_object", now, HeadArgs, FALSE, <<>>)
          /\ UNCHANGED <<pc, i, frame, results, touchLog, ret>>
    /\ UNCHANGED <<buckets, store, clock, now, call, envWrites>>
    /\ UNCHANGED <<listing, manager, sdkLog, getLog>>
    /\ UNCHANGED peer

\* a failed first fetch is swallowed and the touch goes on to the copy
Head1_IgnoresFailure ==
    /\ pc = "head1"
    /\ \/ /\ HeadErrors(buckets, store, HeadArgs.Bucket, HeadArgs.Key) = {}
          /\ \E r \in HeadResponses(store, HeadArgs.Key) :
                /\ frame' = [frame EXCEPT !.head_response = r]
                /\ Logged("head_object", now, HeadArgs, TRUE, r)
          /\ pc' = "copy"
          /\ UNCHANGED <<i, results, touchLog, ret, faults>>
       \/ /\ \E e \in HeadErrors(buckets, store, HeadArgs.Bucket,
                                  HeadArgs.Key) :
                TouchFails(e)
          /\ Logged("head_object", now, HeadArgs, FALSE, <<>>)
          /\ UNCHANGED faults
       \/ /\ faults < MaxFaults
          /\ faults' = faults + 1
          /\ frame' = [frame EXCEPT !.head_response = EmptyHead]
          /\ pc' = "copy"
          /\ Logged("head_object", now, HeadArgs, FALSE, <<>>)
          /\ UNCHANGED <<i, results, touchLog, ret>>
    /\ UNCHANGED <<buckets, store, clock, now, call, envWrites>>
    /\ UNCHANGED <<listing, manager, sdkLog, getLog>>
    /\ UNCHANGED peer

\* line 352
Head1 ==
    /\ pc = "head1"
    /\ \/ /\ HeadErrors(buckets, store, HeadArgs.Bucket, HeadArgs.Key) = {}
          /\ \E r \in HeadResponses(store, HeadArgs.Key) :
                /\ frame' = [frame EXCEPT !.head_response = r]
                /\ Logged("head_object", now, HeadArgs, TRUE, r)
          /\ pc' = "copy"
          /\ UNCHANGED <<i, results, touchLog, ret, faults>>
       \/ /\ \E e \in HeadErrors(buckets, store, HeadArgs.Bucket,
                                  HeadArgs.Key) :
                TouchFails(e)
          /\ Logged("head_object", now, HeadArgs, FALSE, <<>>)
          /\ UNCHANGED faults
       \/ /\ faults < MaxFaults
          /\ faults' = faults + 1
          /\ \E e \in Injected("HeadObject") : TouchFails(e)
          /\ Logged("head_object", now, HeadArgs, FALSE, <<>>)
    /\ UNCHANGED <<buckets, store, clock, now, call, envWrites>>
    /\ UNCHANGED <<listing, manager, sdkLog, getLog>>
    /\ UNCHANGED peer

\* metadata is the caller's dict itself and the merge is done in place
CustomAfterMerge_Aliased(custom_metadata, metadata) ==
    IF Truthy(custom_metadata) THEN Some(metadata) ELSE custom_metadata

\* lines 363-372: the caller's custom_metadata after the merge; metadata is
\* a new dict and custom_metadata is only read
CustomAfterMerge(custom_metadata, metadata) == custom_metadata

\* lines 355-389
Copy ==
    /\ pc = "copy"
    /\ LET t         == now + 1
           metadata  == MergeMetadata(frame.head_response,
                            call.preserve_metadata, call.custom_metadata, t)
           copy_args == CopyArgs(call.bucket_name, CurKey,
                            frame.head_response, metadata)
           written   == CopiedObj(store, copy_args, clock + 1)
       IN  /\ now' = t
           /\ call' = [call EXCEPT !.custom_metadata =
                           CustomAfterMerge(@, metadata)]
           /\ \/ /\ CopyErrors(buckets, store, copy_args) = {}
                 /\ store' = [store EXCEPT ![copy_args.Key] = written]
                 /\ clock' = clock + 1
                 /\ frame' = [frame EXCEPT
                                 !.metadata = metadata,
                                 !.copy_response = CopyResponse(written)]
                 /\ pc' = "head2"
                 /\ Logged("copy_object", t, copy_args, TRUE,
                           CopyResponse(written))
                 /\ UNCHANGED <<i, results, touchLog, ret, faults>>
              \/ /\ \E e \in CopyErrors(buckets, store, copy_args) :
                       TouchFails(e)
                 /\ Logged("copy_object", t, copy_args, FALSE, <<>>)
                 /\ UNCHANGED <<store, clock, faults>>
              \/ /\ faults < MaxFaults
                 /\ faults' = faults + 1
                 /\ \E e \in Injected("CopyObject") : TouchFails(e)
                 /\ Logged("copy_object", t, copy_args, FALSE, <<>>)
                 /\ UNCHANGED <<store, clock>>
    /\ UNCHANGED <<buckets, envWrites>>
    /\ listing' = ListingOf(store')
    /\ UNCHANGED <<manager, sdkLog, getLog>>
    /\ UNCHANGED peer

\* lines 392-406
Head2 ==
    /\ pc = "head2"
    /\ \/ /\ HeadErrors(buckets, store, HeadArgs.Bucket, HeadArgs.Key) = {}
          /\ \E updated_head \in HeadResponses(store, HeadArgs.Key) :
                /\ TouchFinish(Returned(
                       TouchResult(call.bucket_name, CurKey,
                           frame.head_response, updated_head,
                           frame.copy_response, frame.metadata)))
                /\ Logged("head_object", now, HeadArgs, TRUE, updated_head)
          /\ UNCHANGED faults
       \/ /\ \E e \in HeadErrors(buckets, store, HeadArgs.Bucket,
                                  HeadArgs.Key) :
                TouchFails(e)
          /\ Logged("head_object", now, HeadArgs, FALSE, <<>>)
          /\ UNCHANGED faults
       \/ /\ faults < MaxFaults
          /\ faults' = faults + 1
          /\ \E e \in Injected("HeadObject") : TouchFails(e)
          /\ Logged("head_object", now, HeadArgs, FALSE, <<>>)
    /\ UNCHANGED <<buckets, store, clock, now, call, envWrites>>
    /\ UNCHANGED <<listing, manager, sdkLog, getLog>>
    /\ UNCHANGED peer

\* another writer deletes the object between two backend calls of its touch
EnvDelete(k) ==
    /\ pc \in {"copy", "head2"}
    /\ k = CurKey
    /\ envWrites < MaxEnv
    /\ store[k].exists
    /\ envWrites' = envWrites + 1
    /\ store' = [store EXCEPT ![k] = NoObj]
    /\ UNCHANGED <<buckets, clock, now, pc, call, i, frame, results,
                   touchLog, callLog, ret, faults>>
    /\ listing' = ListingOf(store')
    /\ UNCHANGED <<manager, sdkLog, getLog>>
    /\ UNCHANGED peer

\* another writer replaces the metadata of the object between two backend
\* calls of its touch
EnvPut(k) ==
    /\ pc \in {"copy", "head2"}
    /\ k = CurKey
    /\ envWrites < MaxEnv
    /\ store[k].exists
    /\ envWrites' = envWrites + 1
    /\ clock' = clock + 1
    /\ store' = [store EXCEPT ![k].meta = SetItem(@, "w", "3"),
                              ![k].lm = clock + 1]
    /\ UNCHANGED <<buckets, now, pc, call, i, frame, results, touchLog,
                   callLog, ret, faults>>
    /\ listing' = ListingOf(store')
    /\ UNCHANGED <<manager, sdkLog, getLog>>
    /\ UNCHANGED peer

Next ==
    \/ \E k \in Keys, p \in BOOLEAN, c \in CustomChoices :
          StartTouch(TheBucket, k, p, c)
    \/ \E ks \in BoundedSeq(Keys, MaxBatch), p \in BOOLEAN,
          c \in CustomChoices :
          StartBatch(TheBucket, ks, p, c)
    \/ \E p \in BOOLEAN, c \in CustomChoices : StartBatchNone(TheBucket, p, c)
    \/ Head1
    \/ Copy
    \/ Head2
    \/ \E k \in Keys : EnvDelete(k)
    \/ \E k \in Keys : EnvPut(k)

Spec == Init /\ [][Next]_vars

----------------------------------------------------------------------------
(* touch_object of another process on the same bucket *)

\* what the other process passes: preserve_metadata=True and a
\* custom_metadata that shares no key with CustomChoices
PeerCustom == Some("w" :> "3")

\* everything but the backend, the clocks and peer
CallerVars == <<buckets, pc, call, i, frame, results, touchLog, callLog, ret,
                faults, envWrites, manager, sdkLog, getLog>>

\* lines 327-349
PeerStart(object_key) ==
    /\ peer.pc = "idle"
    /\ peer' = [NoPeer EXCEPT !.pc = "head1", !.key = object_key]
    /\ UNCHANGED <<CallerVars, store, listing, clock, now>>

\* line 352
PeerHead1 ==
    /\ peer.pc = "head1"
    /\ \/ /\ HeadErrors(buckets, store, TheBucket, peer.key) = {}
          /\ \E r \in HeadResponses(store, peer.key) :
                peer' = [peer EXCEPT !.pc = "copy", !.head_response = r]
       \/ /\ HeadErrors(buckets, store, TheBucket, peer.key) # {}
          /\ peer' = [peer EXCEPT !.pc = "done"]
    /\ UNCHANGED <<CallerVars, store, listing, clock, now>>

\* lines 355-389
PeerCopy ==
    /\ peer.pc = "copy"
    /\ LET t         == now + 1
           metadata  == MergeMetadata(peer.head_response, TRUE, PeerCustom, t)
           copy_args == CopyArgs(TheBucket, peer.key, peer.head_response,
                                 metadata)
           written   == CopiedObj(store, copy_args, clock + 1)
       IN  /\ now' = t
           /\ \/ /\ CopyErrors(buckets, store, copy_args) = {}
                 /\ store' = [store EXCEPT ![copy_args.Key] = written]
                 /\ clock' = clock + 1
                 /\ peer' = [peer EXCEPT !.pc = "head2",
                                         !.copyAt = clock + 1]
              \/ /\ CopyErrors(buckets, store, copy_args) # {}
                 /\ peer' = [peer EXCEPT !.pc = "done"]
                 /\ UNCHANGED <<store, clock>>
    /\ listing' = ListingOf(store')
    /\ UNCHANGED CallerVars

\* lines 392-406
PeerHead2 ==
    /\ peer.pc = "head2"
    /\ peer' = [peer EXCEPT
                   !.pc = "done",
                   !.ok = HeadErrors(buckets, store, TheBucket, peer.key) = {}]
    /\ UNCHANGED <<CallerVars, store, listing, clock, now>>

NextRace ==
    \/ \E k \in Keys, p \in BOOLEAN, c \in CustomChoices :
          StartTouch(TheBucket, k, p, c)
    \/ Head1
    \/ Copy
    \/ Head2
    \/ \E k \in Keys : PeerStart(k)
    \/ PeerHead1
    \/ PeerCopy
    \/ PeerHead2

SpecRace == Init /\ [][NextRace]_vars

----------------------------------------------------------------------------
(* S3Writer.delete_bucket and S3Writer._empty_bucket *)

DeleteCall(bucket_name, force) ==
    [op |-> "delete_bucket", bucket_name |-> bucket_name, force |-> force]

\* _empty_bucket: the paginator's position, the objects_to_delete of the
\* page, whether a page follows, and in the handler of line 503 the
\* exception being handled
DeleteFrame == [marker |-> 0, objects_to_delete |-> <<>>,
                truncated |-> FALSE, handling |-> <<>>]

\* lines 477-493: versions first, then delete markers
ObjectsToDelete(page) ==
    [n \in DOMAIN page.Versions |-> ObjId(page.Versions[n])]
    \o [n \in DOMAIN page.DeleteMarkers |-> ObjId(page.DeleteMarkers[n])]

\* lines 98-105: what delete_bucket raises for the exception e that reached
\* its try block
DeleteBucketExcept(e, bucket_name) ==
    IF e.type # "ClientError" THEN e
    ELSE DuringHandling(
        IF e.code = "NoSuchBucket"
        THEN AWSResourceException(<<"S3", "delete_bucket",
                 <<"Bucket '", bucket_name, "' does not exist">> >>)
        ELSE IF e.code = "BucketNotEmpty"
        THEN AWSResourceException(<<"S3", "delete_bucket",
                 <<"Bucket '", bucket_name, "' is not empty. Use ",
                   "force=True to delete all objects first">> >>)
        ELSE IF e.code = "AccessDenied"
        THEN AWSPermissionException(<<"S3", "delete_bucket", e.str>>)
        ELSE AWSResourceException(<<"S3", "delete_bucket", e.str>>),
        e)

\* lines 93-96
DeleteReturns ==
    /\ pc' = "done"
    /\ ret' = [op |-> "delete_bucket", ok |-> TRUE,
               val |-> [bucket_name |-> call.bucket_name,
                        status |-> "deleted"],
               exc |-> NoExc]

DeleteRaises(e) ==
    /\ pc' = "done"
    /\ ret' = [op |-> "delete_bucket", ok |-> FALSE, val |-> <<>>,
               exc |-> e]

\* a call of lines 477-500 raised e.  Lines 502-504: a ClientError with code
\* NoSuchKey starts the listing without versions, any other ClientError ends
\* _empty_bucket without an exception; anything else leaves delete_bucket
\* as it is
EmptyingFails(e) ==
    IF e.type = "ClientError"
    THEN /\ IF e.code = "NoSuchKey"
            THEN /\ pc' = "list2"
                 /\ frame' = [DeleteFrame EXCEPT !.handling = <<e>>]
            ELSE /\ pc' = "delbucket"
                 /\ frame' = DeleteFrame
         /\ UNCHANGED ret
    ELSE /\ DeleteRaises(DeleteBucketExcept(e, call.bucket_name))
         /\ frame' = DeleteFrame

\* a call of lines 505-513 raised e while the NoSuchKey error was handled:
\* it leaves _empty_bucket and reaches the handler of delete_bucket
FallbackFails(e) ==
    /\ DeleteRaises(DeleteBucketExcept(
           DuringHandling(e, frame.handling[1]), call.bucket_name))
    /\ frame' = DeleteFrame

\* after the delete_objects of a page: the next page, or line 90
AfterPage(next) == pc' = IF frame.truncated THEN next ELSE "delbucket"

\* lines 86-88
StartDelete(bucket_name, force) ==
    /\ pc = "idle"
    /\ call' = DeleteCall(bucket_name, force)
    /\ frame' = DeleteFrame
    /\ pc' = IF force THEN "list" ELSE "delbucket"
    /\ UNCHANGED <<buckets, store, clock, now, i, results, touchLog,
                   callLog, ret, faults, envWrites, listing, manager,
                   sdkLog, getLog>>
    /\ UNCHANGED peer

\* lines 477-493: one page of list_object_versions
ListVersions ==
    /\ pc = "list"
    /\ LET req  == [Bucket |-> call.bucket_name, Marker |-> frame.marker]
           page == ListVersionsPage(listing, frame.marker)
           objs == ObjectsToDelete(page)
       IN  \/ /\ BucketErrors(buckets, req.Bucket, "ListObjectVersions") = {}
              /\ Logged("list_object_versions", now, req, TRUE, page)
              /\ frame' = [frame EXCEPT !.marker = page.NextMarker,
                                        !.objects_to_delete = objs,
                                        !.truncated = page.IsTruncated]
              /\ pc' = IF objs # <<>> THEN "delobjs"
                       ELSE IF page.IsTruncated THEN "list" ELSE "delbucket"
              /\ UNCHANGED <<ret, faults>>
           \/ /\ \E e \in BucketErrors(buckets, req.Bucket,
                                       "ListObjectVersions") :
                    EmptyingFails(e)
              /\ Logged("list_object_versions", now, req, FALSE, <<>>)
              /\ UNCHANGED faults
           \/ /\ faults < MaxFaults
              /\ faults' = faults + 1
              /\ \E e \in InjectedEmptying("ListObjectVersions") :
                    EmptyingFails(e)
              /\ Logged("list_object_versions", now, req, FALSE, <<>>)
    /\ UNCHANGED <<buckets, store, clock, now, call, i, results, touchLog,
                   envWrites, listing, manager, sdkLog, getLog>>
    /\ UNCHANGED peer

\* lines 496-500: delete_objects for the versions and markers of the page
DeleteObjects ==
    /\ pc = "delobjs"
    /\ LET req == [Bucket |-> call.bucket_name,
                   Delete |-> [Objects |-> frame.objects_to_delete]]
       IN  \/ /\ BucketErrors(buckets, req.Bucket, "DeleteObjects") = {}
              /\ listing' = DeleteVersions(listing, req.Delete.Objects)
              /\ store' = StoreOf(listing')
              /\ Logged("delete_objects", now, req, TRUE, <<>>)
              /\ AfterPage("list")
              /\ UNCHANGED <<frame, ret, faults>>
           \/ /\ \E e \in BucketErrors(buckets, req.Bucket,
                                       "DeleteObjects") :
                    EmptyingFails(e)
              /\ Logged("delete_objects", now, req, FALSE, <<>>)
              /\ UNCHANGED <<store, listing, faults>>
           \/ /\ faults < MaxFaults
              /\ faults' = faults + 1
              /\ \E e \in InjectedEmptying("DeleteObjects") :
                    EmptyingFails(e)
              /\ Logged("delete_objects", now, req, FALSE, <<>>)
              /\ UNCHANGED <<store, listing>>
    /\ UNCHANGED <<buckets, clock, now, call, i, results, touchLog,
                   envWrites, manager, sdkLog, getLog>>
    /\ UNCHANGED peer

\* lines 505-507: one page of list_objects_v2
ListObjects ==
    /\ pc = "list2"
    /\ LET req  == [Bucket |-> call.bucket_name, Marker |-> frame.marker]
           page == ListObjectsPage(listing, frame.marker)
       IN  \/ /\ BucketErrors(buckets, req.Bucket, "ListObjectsV2") = {}
              /\ Logged("list_objects_v2", now, req, TRUE, page)
              /\ frame' = [frame EXCEPT
                              !.marker = page.NextMarker,
                              !.objects_to_delete = page.Contents,
                              !.truncated = page.IsTruncated]
              /\ pc' = IF page.Contents # <<>> THEN "delobjs2"
                       ELSE IF page.IsTruncated THEN "list2"
                       ELSE "delbucket"
              /\ UNCHANGED <<ret, faults>>
           \/ /\ \E e \in BucketErrors(buckets, req.Bucket,
                                       "ListObjectsV2") :
                    FallbackFails(e)
              /\ Logged("list_objects_v2", now, req, FALSE, <<>>)
              /\ UNCHANGED faults
           \/ /\ faults < MaxFaults
              /\ faults' = faults + 1
              /\ \E e \in Injected("ListObjectsV2") : FallbackFails(e)
              /\ Logged("list_objects_v2", now, req, FALSE, <<>>)
    /\ UNCHANGED <<buckets, store, clock, now, call, i, results, touchLog,
                   envWrites, listing, manager, sdkLog, getLog>>
    /\ UNCHANGED peer

\* lines 509-513: delete_objects for the keys of the page
DeleteObjectsByKey ==
    /\ pc = "delobjs2"
    /\ LET req == [Bucket |-> call.bucket_name,
                   Delete |-> [Objects |-> frame.objects_to_delete]]
       IN  \/ /\ BucketErrors(buckets, req.Bucket, "DeleteObjects") = {}
              /\ listing' = DeleteKeys(listing, req.Delete.Objects)
              /\ store' = StoreOf(listing')
              /\ Logged("delete_objects", now, req, TRUE, <<>>)
              /\ AfterPage("list2")
              /\ UNCHANGED <<frame, ret, faults>>
           \/ /\ \E e \in BucketErrors(buckets, req.Bucket,
                                       "DeleteObjects") :
                    FallbackFails(e)
              /\ Logged("delete_objects", now, req, FALSE, <<>>)
              /\ UNCHANGED <<store, listing, faults>>
           \/ /\ faults < MaxFaults
              /\ faults' = faults + 1
              /\ \E e \in Injected("DeleteObjects") : FallbackFails(e)
              /\ Logged("delete_objects", now, req, FALSE, <<>>)
              /\ UNCHANGED <<store, listing>>
    /\ UNCHANGED <<buckets, clock, now, call, i, results, touchLog,
                   envWrites, manager, sdkLog, getLog>>
    /\ UNCHANGED peer

\* lines 90-105
DeleteBucket ==
    /\ pc = "delbucket"
    /\ LET req == [Bucket |-> call.bucket_name]
       IN  \/ /\ DeleteBucketErrors(buckets, listing, req.Bucket) = {}
              /\ buckets' = buckets \ {req.Bucket}
              /\ Logged("delete_bucket", now, req, TRUE, <<>>)
              /\ DeleteReturns
              /\ UNCHANGED faults
           \/ /\ \E e \in DeleteBucketErrors(buckets, listing, req.Bucket) :
                    DeleteRaises(DeleteBucketExcept(e, call.bucket_name))
              /\ Logged("delete_bucket", now, req, FALSE, <<>>)
              /\ UNCHANGED <<buckets, faults>>
           \/ /\ faults < MaxFaults
              /\ faults' = faults + 1
              /\ \E e \in Injected("DeleteBucket") :
                    DeleteRaises(DeleteBucketExcept(e, call.bucket_name))
              /\ Logged("delete_bucket", now, req, FALSE, <<>>)
              /\ UNCHANGED buckets
    /\ UNCHANGED <<store, clock, now, call, i, frame, results, touchLog,
                   envWrites, listing, manager, sdkLog, getLog>>
    /\ UNCHANGED peer

\* a bucket that holds versions and delete markers, or no bucket
InitDelete ==
    /\ \/ buckets = {TheBucket} /\ listing \in Listings
       \/ buckets = {} /\ listing = <<>>
    /\ store = StoreOf(listing)
    /\ clock = 0
    /\ now = 0
    /\ pc = "idle"
    /\ call = NoCall
    /\ i = 0
    /\ frame = NoFrame
    /\ results = NewResults("", <<>>)
    /\ touchLog = <<>>
    /\ callLog = <<>>
    /\ ret = NoRet
    /\ faults = 0
    /\ envWrites = 0
    /\ manager = NoManager
    /\ sdkLog = <<>>
    /\ getLog = <<>>
    /\ peer = NoPeer

NextDelete ==
    \/ \E force \in BOOLEAN : StartDelete(TheBucket, force)
    \/ ListVersions
    \/ DeleteObjects
    \/ ListObjects
    \/ DeleteObjectsByKey
    \/ DeleteBucket

SpecDelete == InitDelete /\ [][NextDelete]_vars

----------------------------------------------------------------------------
(* AWSClientManager *)

\* the manager asks the SDK: by is the method that asks
SdkCall(by, op, args, ok) == [by |-> by, op |-> op, args |-> args, ok |-> ok]

\* lines 53-57: what _initialize_session raises for the exception e of its
\* try block
InitializeSessionExcept(e) ==
    IF e.type # "ClientError" THEN e
    ELSE DuringHandling(
        IF e.code = "AccessDenied"
        THEN AWSPermissionException(<<"STS", "get_caller_identity", e.str>>)
        ELSE AWSConnectionException(
                 << <<"Failed to connect to AWS: ">> \o e.str >>),
        e)

\* lines 37-40: what the constructor raises for the exception e that left
\* _initialize_session
InitExcept(e) ==
    IF e.type \notin BotoCoreFamily THEN e
    ELSE DuringHandling(
        AWSConnectionException(
            << <<"Failed to initialize AWS session: ">> \o e.str >>),
        e)

\* the constructor raised: there is no manager
NoManagerBecause(m, e) ==
    [m EXCEPT !.state = "failed", !.exc = InitExcept(InitializeSessionExcept(e))]

\* line 73
EffectiveRegion(region_name, own) == Or(region_name, own)

\* line 74
ClientKey(service_name, region) == service_name \o "_" \o Format(region)

\* the cache is never consulted
Cached_Never(clients, client_key) == FALSE

\* line 76
Cached(clients, client_key) == client_key \in DOMAIN clients

\* lines 21-57
Construct(profile_name, region_name) ==
    /\ manager.state = "none"
    /\ LET m0      == [NoManager EXCEPT !.profile_name = profile_name,
                                        !.region_name = region_name]
           session == [profile_name |-> profile_name,
                       region_name |-> region_name]
           m1      == [m0 EXCEPT !.session = <<session>>]
           new(ok) == SdkCall("__init__", "Session",
                              <<profile_name, region_name>>, ok)
           sts(ok) == SdkCall("__init__", "client", <<"sts">>, ok)
           who(ok) == SdkCall("__init__", "get_caller_identity", <<>>, ok)
       IN  \/ \E e \in SessionErrors(profile_name) :
                 /\ sdkLog' = sdkLog \o <<new(FALSE)>>
                 /\ manager' = NoManagerBecause(m0, e)
           \/ \E e \in StsClientErrors(region_name) :
                 /\ sdkLog' = sdkLog \o <<new(TRUE), sts(FALSE)>>
                 /\ manager' = NoManagerBecause(m1, e)
           \/ \E e \in IdentityErrors :
                 /\ sdkLog' = sdkLog \o <<new(TRUE), sts(TRUE), who(FALSE)>>
                 /\ manager' = NoManagerBecause(m1, e)
           \/ /\ sdkLog' = sdkLog \o <<new(TRUE), sts(TRUE), who(TRUE)>>
              /\ manager' = [m1 EXCEPT !.state = "built"]
    /\ UNCHANGED <<buckets, store, clock, now, pc, call, i, frame, results,
                   touchLog, callLog, ret, faults, envWrites, listing,
                   getLog>>
    /\ UNCHANGED peer

\* a failed creation leaves an entry without a client in the cache
GetClient_CachesFailure(service_name, region_name) ==
    /\ manager.state = "built"
    /\ Len(getLog) < MaxGets
    /\ LET region     == EffectiveRegion(region_name, manager.region_name)
           client_key == ClientKey(service_name, region)
           created    == Client(Len(sdkLog) + 1, service_name, region)
           asked(ok)  == SdkCall("get_client", "client",
                                 <<service_name, region>>, ok)
           got(ok, v, e) == [service_name |-> service_name,
                             region_name |-> region_name,
                             ok |-> ok, val |-> v, exc |-> e]
       IN  IF Cached(manager.clients, client_key)
           THEN /\ getLog' = Append(getLog,
                        got(TRUE, manager.clients[client_key], NoExc))
                /\ UNCHANGED <<manager, sdkLog, faults>>
           ELSE \/ /\ sdkLog' = Append(sdkLog, asked(TRUE))
                   /\ manager' = [manager EXCEPT !.clients =
                                     SetItem(@, client_key, created)]
                   /\ getLog' = Append(getLog, got(TRUE, created, NoExc))
                   /\ UNCHANGED faults
                \/ /\ faults < MaxFaults
                   /\ faults' = faults + 1
                   /\ sdkLog' = Append(sdkLog, asked(FALSE))
                   /\ \E e \in Injected("CreateClient") :
                         getLog' = Append(getLog, got(FALSE, <<>>,
                             DuringHandling(AWSConnectionException(
                                 << <<"Failed to create ", service_name,
                                      " client: ">> \o e.str >>), e)))
                   /\ manager' = [manager EXCEPT !.clients =
                                     SetItem(@, client_key,
                                             Client(0, "", NoneStr))]
    /\ UNCHANGED <<buckets, store, clock, now, pc, call, i, frame, results,
                   touchLog, callLog, ret, envWrites, listing>>
    /\ UNCHANGED peer

\* lines 59-86
GetClient(service_name, region_name) ==
    /\ manager.state = "built"
    /\ Len(getLog) < MaxGets
    /\ LET region     == EffectiveRegion(region_name, manager.region_name)
           client_key == ClientKey(service_name, region)
           created    == Client(Len(sdkLog) + 1, service_name, region)
           asked(ok)  == SdkCall("get_client", "client",
                                 <<service_name, region>>, ok)
           got(ok, v, e) == [service_name |-> service_name,
                             region_name |-> region_name,
                             ok |-> ok, val |-> v, exc |-> e]
       IN  IF Cached(manager.clients, client_key)
           THEN /\ getLog' = Append(getLog,
                        got(TRUE, manager.clients[client_key], NoExc))
                /\ UNCHANGED <<manager, sdkLog, faults>>
           ELSE \/ /\ sdkLog' = Append(sdkLog, asked(TRUE))
                   /\ manager' = [manager EXCEPT !.clients =
                                     SetItem(@, client_key, created)]
                   /\ getLog' = Append(getLog, got(TRUE, created, NoExc))
                   /\ UNCHANGED faults
                \/ /\ faults < MaxFaults
                   /\ faults' = faults + 1
                   /\ sdkLog' = Append(sdkLog, asked(FALSE))
                   /\ \E e \in Injected("CreateClient") :
                         getLog' = Append(getLog, got(FALSE, <<>>,
                             DuringHandling(AWSConnectionException(
                                 << <<"Failed to create ", service_name,
                                      " client: ">> \o e.str >>), e)))
                   /\ UNCHANGED manager
    /\ UNCHANGED <<buckets, store, clock, now, pc, call, i, frame, results,
                   touchLog, callLog, ret, envWrites, listing>>
    /\ UNCHANGED peer

\* no manager yet
InitClient ==
    /\ manager = NoManager
    /\ sdkLog = <<>>
    /\ getLog = <<>>
    /\ buckets = {TheBucket}
    /\ store = NoStore
    /\ listing = <<>>
    /\ clock = 0
    /\ now = 0
    /\ pc = "idle"
    /\ call = NoCall
    /\ i = 0
    /\ frame = NoFrame
    /\ results = NewResults("", <<>>)
    /\ touchLog = <<>>
    /\ callLog = <<>>
    /\ ret = NoRet
    /\ faults = 0
    /\ envWrites = 0
    /\ peer = NoPeer

NextClient ==
    \/ \E p \in Profiles, r \in RegionArgs : Construct(p, r)
    \/ \E s \in Services, r \in RegionArgs : GetClient(s, r)

SpecClient == InitClient /\ [][NextClient]_vars

----------------------------------------------------------------------------
(* Properties of batch_touch_objects *)

N == Len(call.object_keys)

IsBatch == call.op = "batch"
IsTouch == call.op = "touch"

\* the records of list whose object_key is k
CountKey(list, k) == Cardinality({n \in DOMAIN list : list[n].object_key = k})

\* the occurrences of k among the first n keys of the input
Occurrences(k, n) == Cardinality({j \in 1..n : call.object_keys[j] = k})

\* the backend calls issued for the key at position j
CallsOf(j) == SelectSeq(callLog, LAMBDA c : c.i = j)

\* head, copy and head were issued for position j and all succeeded
AllCallsOk(j) ==
    /\ Len(CallsOf(j)) = 3
    /\ \A n \in 1..3 : CallsOf(j)[n].ok

\* the records that the touch of position j must leave
TouchedRecord(j) ==
    [object_key        |-> call.object_keys[j],
     new_last_modified |-> touchLog[j].val.new_last_modified,
     touched_at        |-> touchLog[j].val.touched_at]

FailedRecord(j) ==
    [object_key |-> call.object_keys[j], error |-> touchLog[j].exc.str]

ReturnedPositions == {j \in DOMAIN touchLog : touchLog[j].ok}
RaisedPositions   == {j \in DOMAIN touchLog : ~touchLog[j].ok}

SeqToBag(list) ==
    [e \in Range(list) |-> Cardinality({n \in DOMAIN list : list[n] = e})]

BagOver(S, F(_)) ==
    [e \in {F(j) : j \in S} |-> Cardinality({j \in S : F(j) = e})]

\* the positions of S in increasing order
Ascending(S) == SelectSeq([j \in 1..Len(touchLog) |-> j], LAMBDA j : j \in S)

\* C1: the result of batch_touch_objects accounts for every key: total_objects
\* is the length of the input, the two counters are the lengths of the two
\* lists, after k keys the counters add up to k (to N at the return), and
\* every occurrence of a key is in exactly one of the two lists.
C1_BatchAccounting ==
    IsBatch =>
        /\ results.total_objects = N
        /\ results.successful_touches = Len(results.touched_objects)
        /\ results.failed_touches = Len(results.failed_objects)
        /\ results.successful_touches + results.failed_touches = i - 1
        /\ \A k \in Keys :
              CountKey(results.touched_objects, k) +
              CountKey(results.failed_objects, k) = Occurrences(k, i - 1)
        /\ pc = "done" =>
              /\ ret.op = "batch" /\ ret.ok
              /\ ret.val = results
              /\ results.successful_touches + results.failed_touches = N

C1_Witness ==
    /\ IsBatch /\ pc = "done" /\ N = 3
    /\ call.object_keys[1] = call.object_keys[3]
    /\ results.successful_touches = 1
    /\ results.failed_touches = 2

C1_WitnessEmpty ==
    IsBatch /\ pc = "done" /\ N = 0 /\ ret.val.total_objects = 0

\* C2: a touch that fails, with whatever exception, neither raises out of
\* batch_touch_objects nor stops it: the call returns, every key has been
\* attempted, and every key whose three backend calls succeeded is in
\* touched_objects.
C2_BatchIsolation ==
    IsBatch =>
        /\ ret.ok
        /\ pc \in {"head1", "copy", "head2"} => i <= N
        /\ pc = "done" =>
              /\ ret.op = "batch"
              /\ \A j \in 1..N : CallsOf(j) # <<>>
              /\ \A k \in Keys :
                    CountKey(ret.val.touched_objects, k) >=
                    Cardinality({j \in 1..N : /\ call.object_keys[j] = k
                                              /\ AllCallsOk(j)})

C2_Witness ==
    /\ IsBatch /\ pc = "done" /\ N = 3
    /\ ~touchLog[1].ok /\ touchLog[1].exc.type = "TypeError"
    /\ ~touchLog[2].ok /\ touchLog[2].exc.type = "EndpointConnectionError"
    /\ AllCallsOk(3)
    /\ ret.val.touched_objects # <<>>

\* C3: an occurrence of a key is in failed_objects, with str(e), exactly when
\* its touch_object raised e, and is otherwise in touched_objects with the
\* new_last_modified and touched_at that touch_object returned; keys
\* [x, y, x] with only y missing give 3 / 2 / 1 and one failure record, for y.
C3_FailedIffRaised ==
    IsBatch =>
        /\ Len(touchLog) = i - 1
        /\ SeqToBag(results.touched_objects) =
              BagOver(ReturnedPositions, TouchedRecord)
        /\ SeqToBag(results.failed_objects) =
              BagOver(RaisedPositions, FailedRecord)
        /\ (/\ pc = "done" /\ call.object_keys = <<"x", "y", "x">>
            /\ faults = 0 /\ envWrites = 0
            /\ buckets = {TheBucket}
            /\ store["x"].exists /\ ~store["y"].exists)
           => /\ ret.val.total_objects = 3
              /\ ret.val.successful_touches = 2
              /\ ret.val.failed_touches = 1
              /\ Len(ret.val.failed_objects) = 1
              /\ ret.val.failed_objects[1].object_key = "y"

C3_Witness ==
    /\ IsBatch /\ pc = "done" /\ call.object_keys = <<"x", "y", "x">>
    /\ faults = 0 /\ envWrites = 0
    /\ store["x"].exists /\ ~store["y"].exists
    /\ ret.val.successful_touches = 2
    /\ ret.val.failed_objects = <<FailedRecord(2)>>

\* C4: both result lists are in input order: the n-th record of
\* touched_objects is the record of the n-th position whose touch returned,
\* the n-th record of failed_objects that of the n-th position whose touch
\* raised.
C4_InputOrder ==
    IsBatch =>
        /\ results.touched_objects =
              [n \in 1..Len(Ascending(ReturnedPositions)) |->
                  TouchedRecord(Ascending(ReturnedPositions)[n])]
        /\ results.failed_objects =
              [n \in 1..Len(Ascending(RaisedPositions)) |->
                  FailedRecord(Ascending(RaisedPositions)[n])]

C4_Witness ==
    /\ IsBatch /\ pc = "done"
    /\ Len(results.failed_objects) = 2
    /\ results.failed_objects[1].object_key = "y"
    /\ results.failed_objects[2].object_key = "x"
    /\ results.failed_objects[1].error # results.failed_objects[2].error
    /\ Len(results.touched_objects) = 1

----------------------------------------------------------------------------
(* Properties of touch_object *)

NotFoundCodes == {"NoSuchKey", "404", "NoSuchBucket"}

\* AWSResourceException (AWSResourceError) and its subclass
ResourceErrorFamily == {"AWSResourceError", "ResourceNotFoundError"}

\* sub occurs in s as a run of consecutive pieces
Contains(sub, s) ==
    \E k \in 0..(Len(s) - Len(sub)) : SubSeq(s, k + 1, k + Len(sub)) = sub

\* the backend error that made the touch of position j fail, if it was a
\* ClientError
BackendError(j) == touchLog[j].exc.context

\* C5: touch_object on an object or bucket that is missing at the first
\* fetch or at the copy raises an exception of the AWSResourceException
\* family whose message names the bucket and the object key.
C5_NotFoundNamesBucketAndKey ==
    \A j \in RaisedPositions :
        (/\ Len(CallsOf(j)) <= 2
         /\ BackendError(j) # <<>>
         /\ BackendError(j)[1].code \in NotFoundCodes)
        => /\ touchLog[j].exc.type \in ResourceErrorFamily
           /\ call.bucket_name \in Range(touchLog[j].exc.str)
           /\ call.object_keys[j] \in Range(touchLog[j].exc.str)

\* C6: every touch_object either returns a complete result or raises an
\* exception of the AWSResourceException family; no other type escapes.
C6_ReturnsOrDeclaredError ==
    \A j \in DOMAIN touchLog :
        IF touchLog[j].ok
        THEN /\ touchLog[j].val.operation = "touch_successful"
             /\ touchLog[j].val.bucket_name = call.bucket_name
             /\ touchLog[j].val.object_key = call.object_keys[j]
        ELSE (BackendError(j) # <<>>) =>
                touchLog[j].exc.type \in ResourceErrorFamily

\* C7: a backend error other than not-found makes touch_object raise
\* AWSResourceException with the backend's error text in its message.
C7_OtherErrorsKeepText ==
    \A j \in RaisedPositions :
        (/\ BackendError(j) # <<>>
         /\ BackendError(j)[1].code \notin NotFoundCodes)
        => /\ touchLog[j].exc.type \in ResourceErrorFamily
           /\ Contains(BackendError(j)[1].str, touchLog[j].exc.str)

CopyCalls == {n \in DOMAIN callLog : callLog[n].op = "copy_object"}

\* the existing metadata seen by the fetch that precedes the copy call n
Existing(n) ==
    IF callLog[n - 1].resp.hasMetadata
    THEN callLog[n - 1].resp.Metadata ELSE EmptyMap

Custom == IF call.custom_metadata.some THEN call.custom_metadata.v
          ELSE EmptyMap

Preserved(n) == IF call.preserve_metadata THEN Existing(n) ELSE EmptyMap

OverlayKeys(n) == (DOMAIN Preserved(n) \cup DOMAIN Custom) \ {TouchedAt}

\* C8: the metadata sent with every copy, and returned as 'metadata', is
\* (E if P else {}) overlaid with O on every key other than touched-at, and
\* has a touched-at key.
C8_MergePrecedence ==
    /\ \A n \in CopyCalls :
          LET M == callLog[n].req.Metadata IN
          /\ DOMAIN M = OverlayKeys(n) \cup {TouchedAt}
          /\ \A k \in OverlayKeys(n) :
                M[k] = IF k \in DOMAIN Custom THEN Custom[k]
                       ELSE Preserved(n)[k]
    /\ \A j \in ReturnedPositions :
          touchLog[j].val.metadata = CallsOf(j)[2].req.Metadata

C8_Witness ==
    /\ IsTouch /\ pc = "done" /\ ret.ok
    /\ call.preserve_metadata
    /\ Existing(2) = InitMeta["x"]
    /\ Custom = ("a" :> "2") @@ (TouchedAt :> "9")
    /\ ret.val.metadata["a"] = "2"
    /\ ret.val.metadata["k"] = "1"

\* C9: the touched-at entry sent with every copy is the timestamp read by
\* this touch, whatever touched-at the existing metadata or custom_metadata
\* hold, and the touched_at of a result is the touched-at of its metadata.
C9_TouchedAtIsThisTouch ==
    /\ \A n \in CopyCalls :
          callLog[n].req.Metadata[TouchedAt] = IsoFormat(callLog[n].now)
    /\ \A j \in ReturnedPositions :
          /\ touchLog[j].val.touched_at = touchLog[j].val.metadata[TouchedAt]
          /\ touchLog[j].val.touched_at = IsoFormat(CallsOf(j)[2].now)

C9_Witness ==
    /\ IsTouch /\ pc = "done" /\ ret.ok
    /\ call.preserve_metadata
    /\ TouchedAt \in DOMAIN Existing(2) /\ Existing(2)[TouchedAt] = "T0"
    /\ TouchedAt \in DOMAIN Custom /\ Custom[TouchedAt] = "9"
    /\ ret.val.touched_at = "T1"

Last == Len(touchLog)

\* a touch_object has just returned and no other writer has acted
JustTouched ==
    /\ Last >= 1
    /\ pc \in {"head1", "done"}
    /\ touchLog[Last].ok
    /\ envWrites = 0

\* the metadata of the object at the first fetch of the last touch
Prior == CallsOf(Last)[1].resp.Metadata

Stored == store[call.object_keys[Last]].meta

\* C10 as stated: after a successful touch without another writer the stored
\* metadata is the returned 'metadata'; without preserve_metadata no prior
\* key survives unless custom_metadata supplies it, with preserve_metadata
\* every prior key survives.
C10_StoredIsReturned_Original ==
    JustTouched =>
        /\ Stored = touchLog[Last].val.metadata
        /\ ~call.preserve_metadata =>
              \A k \in DOMAIN Prior \cap DOMAIN Stored : k \in DOMAIN Custom
        /\ call.preserve_metadata => DOMAIN Prior \subseteq DOMAIN Stored

\* C10 (amended): as above, but without preserve_metadata the key touched-at
\* is kept (with the new timestamp) next to what custom_metadata supplies;
\* the copy names the touched object as source and destination and asks for
\* REPLACE.
C10_StoredIsReturned ==
    JustTouched =>
        /\ Stored = touchLog[Last].val.metadata
        /\ ~call.preserve_metadata =>
              \A k \in (DOMAIN Prior \cap DOMAIN Stored) \ {TouchedAt} :
                  k \in DOMAIN Custom
        /\ call.preserve_metadata => DOMAIN Prior \subseteq DOMAIN Stored
        /\ LET req == CallsOf(Last)[2].req IN
           /\ req.CopySource = [Bucket |-> req.Bucket, Key |-> req.Key]
           /\ req.Key = call.object_keys[Last]
           /\ req.MetadataDirective = "REPLACE"

C10_Witness ==
    /\ JustTouched /\ pc = "done"
    /\ ~call.preserve_metadata
    /\ Prior = InitMeta["x"]
    /\ DOMAIN Stored = {"a", TouchedAt}
    /\ Stored["a"] = "2"

\* C11: no touch changes the payload bytes of an object or the checksum
\* derived from them, and the etag of a result is the checksum the object
\* had at the first fetch.
C11_PayloadInvariant ==
    /\ \A k \in Keys :
          store[k].exists =>
              /\ store[k].body = InitBody(k)
              /\ store[k].etag = Checksum(store[k].body)
    /\ \A j \in ReturnedPositions :
          /\ touchLog[j].val.etag = Strip(CallsOf(j)[1].resp.ETag)
          /\ touchLog[j].val.etag = <<Checksum(InitBody(call.object_keys[j]))>>

C11_Witness ==
    /\ IsBatch /\ pc = "done"
    /\ call.object_keys = <<"x", "y", "x">>
    /\ ReturnedPositions = {1, 2, 3}
    /\ store["x"].lm > 1
    /\ store["x"].body = InitBody("x")

ThreeHeaders == {"ContentType", "ContentEncoding", "CacheControl"}

\* C12: each of content-type, content-encoding and cache-control that the
\* first fetch reported is sent with the copy with the same value, one that
\* was absent is not sent, and after a successful touch the object carries
\* the three as before.
C12_HeadersForwarded ==
    /\ \A n \in CopyCalls :
          \A h \in ThreeHeaders :
              LET seen == callLog[n - 1].resp.Headers
                  sent == callLog[n].req.Headers
              IN  /\ h \in DOMAIN sent <=> h \in DOMAIN seen
                  /\ h \in DOMAIN seen => sent[h] = seen[h]
    /\ JustTouched =>
          LET seen == CallsOf(Last)[1].resp.Headers
              kept == store[call.object_keys[Last]].headers
          IN  \A h \in ThreeHeaders :
                  /\ h \in DOMAIN kept <=> h \in DOMAIN seen
                  /\ h \in DOMAIN seen => kept[h] = seen[h]

C12_Witness ==
    /\ JustTouched /\ pc = "done"
    /\ call.object_keys[Last] = "y"
    /\ DOMAIN CallsOf(Last)[2].req.Headers = {"CacheControl"}
    /\ store["y"].headers = InitHeaders["y"]

\* C13: two touches of the same object in succession: the second succeeds
\* when nothing disturbs it, and its touched_at and new_last_modified differ
\* from those of the first, its previous_last_modified being the first's
\* new_last_modified.
C13_Repeatable ==
    \A j \in 1..(Last - 1) :
        (call.object_keys[j] = call.object_keys[j + 1] /\ touchLog[j].ok) =>
            /\ (faults = 0 /\ envWrites = 0) => touchLog[j + 1].ok
            /\ touchLog[j + 1].ok =>
                  LET first  == touchLog[j].val
                      second == touchLog[j + 1].val
                  IN  /\ second.touched_at # first.touched_at
                      /\ second.new_last_modified # first.new_last_modified
                      /\ second.previous_last_modified =
                            first.new_last_modified

C13_Witness ==
    /\ IsBatch /\ pc = "done"
    /\ call.object_keys = <<"x", "x">>
    /\ touchLog[1].ok /\ touchLog[2].ok
    /\ touchLog[1].val.touched_at = "T1"
    /\ touchLog[2].val.touched_at = "T2"
    /\ touchLog[2].val.new_last_modified = 2

\* C14: batch_touch_objects returns a result for every key list; it raises
\* only for object_keys=None, and then raises AWSResourceException
\* describing the batch failure.
C14_OutrightFailureIsDeclared ==
    (ret.op = "batch" /\ pc = "done") =>
        /\ call.op = "batch" => ret.ok
        /\ ~ret.ok =>
              /\ call.op = "batch_none"
              /\ ret.exc.type \in ResourceErrorFamily
              /\ "Batch touch operation failed: " \in Range(ret.exc.str)

ExpectedOps == <<"head_object", "copy_object", "head_object">>

\* C18: the backend calls of one touch are a prefix of head, copy, head on
\* the bucket and key of the touch; a call is issued only after the one
\* before it succeeded, so nothing follows a failure and nothing is retried.
C18_CallsArePrefix ==
    \A j \in 1..N :
        LET cs == CallsOf(j) IN
        /\ Len(cs) <= 3
        /\ \A n \in DOMAIN cs :
              /\ cs[n].op = ExpectedOps[n]
              /\ cs[n].req.Bucket = call.bucket_name
              /\ cs[n].req.Key = call.object_keys[j]
              /\ n < Len(cs) => cs[n].ok
              /\ n = 2 => cs[n].req.CopySource =
                             [Bucket |-> call.bucket_name,
                              Key |-> call.object_keys[j]]
        /\ j \in DOMAIN touchLog =>
              /\ cs # <<>>
              /\ touchLog[j].ok <=> (Len(cs) = 3 /\ cs[3].ok)
        /\ j \notin DOMAIN touchLog /\ j # i => cs = <<>>

C18_Witness ==
    /\ IsBatch /\ pc = "done" /\ N = 2
    /\ Len(CallsOf(1)) = 2 /\ ~CallsOf(1)[2].ok
    /\ AllCallsOk(2)
    /\ Len(callLog) = 5

\* no touch whose first fetch failed has issued any other call
NoCopyAfterFailedFetch ==
    \A j \in 1..N :
        (CallsOf(j) # <<>> /\ ~CallsOf(j)[1].ok) => Len(CallsOf(j)) = 1

\* the step of the first fetch, failing
FetchFails ==
    /\ pc = "head1"
    /\ Len(callLog') = Len(callLog) + 1
    /\ ~callLog'[Len(callLog')].ok

\* C19: when the first fetch of a touch fails, the touch ends without a copy
\* and the backend (bucket, objects, their metadata, timestamps, payload) is
\* what it was before.
C19_FailedFetchChangesNothing ==
    [][/\ FetchFails =>
             /\ store' = store
             /\ buckets' = buckets
             /\ clock' = clock
             /\ Len(touchLog') = Len(touchLog) + 1
             /\ ~touchLog'[Len(touchLog')].ok
             /\ pc' \in {"head1", "done"}
       /\ NoCopyAfterFailedFetch']_vars

C19_Witness ==
    /\ IsTouch /\ pc = "done" /\ ~ret.ok
    /\ Len(callLog) = 1
    /\ faults = 1
    /\ store[call.object_keys[1]] = InitObj(call.object_keys[1])

\* the copy of the touch of position j succeeded and its re-fetch failed
RefetchFailed(j) ==
    /\ Len(CallsOf(j)) = 3
    /\ CallsOf(j)[2].ok
    /\ ~CallsOf(j)[3].ok

\* when the copy succeeded and the re-fetch failed the touch has failed,
\* the batch lists the key in failed_objects, and the object keeps the
\* metadata and the timestamp written by the copy
C20_CopyIsKept ==
    /\ \A j \in DOMAIN touchLog :
          RefetchFailed(j) =>
              /\ ~touchLog[j].ok
              /\ IsBatch =>
                    \E n \in DOMAIN results.failed_objects :
                        results.failed_objects[n] = FailedRecord(j)
    /\ (/\ Last >= 1 /\ pc \in {"head1", "done"}
        /\ RefetchFailed(Last) /\ envWrites = 0)
       => LET obj == store[call.object_keys[Last]] IN
          /\ obj.exists
          /\ obj.meta = CallsOf(Last)[2].req.Metadata
          /\ obj.lm > CallsOf(Last)[1].resp.LastModified

\* C20: when the copy succeeds and the re-fetch fails, the object keeps what
\* the copy wrote, batch_touch_objects records the key in failed_objects, and
\* touch_object raises the error of the re-fetch: the exception that escapes
\* is that error or carries its text.
C20_NoRollback ==
    /\ C20_CopyIsKept
    /\ \A j \in DOMAIN touchLog :
          RefetchFailed(j) =>
              \/ touchLog[j].exc.type = "EndpointConnectionError"
              \/ /\ BackendError(j) # <<>>
                 /\ Contains(BackendError(j)[1].str, touchLog[j].exc.str)

C20_Witness ==
    /\ IsBatch /\ pc = "done" /\ envWrites = 0
    /\ call.object_keys = <<"x">>
    /\ RefetchFailed(1)
    /\ results.failed_objects = <<FailedRecord(1)>>
    /\ store["x"].meta[TouchedAt] = "T1"
    /\ store["x"].lm = 1

\* the effective region of the n-th get_client
RegionOf(n) == EffectiveRegion(getLog[n].region_name, manager.region_name)

\* the clients the session created for get_client calls for the pair
CreatedFor(service, region) ==
    {n \in DOMAIN sdkLog :
        /\ sdkLog[n].by = "get_client" /\ sdkLog[n].op = "client"
        /\ sdkLog[n].ok
        /\ sdkLog[n].args = <<service, region>>}

\* C15: two get_client calls on one manager with the same service name and
\* the same effective region return the same client object, and the get_client
\* calls make the session create a client for that pair at most once.
C15_OneClientPerServiceAndRegion ==
    /\ \A a, b \in DOMAIN getLog :
          (/\ getLog[a].ok /\ getLog[b].ok
           /\ getLog[a].service_name = getLog[b].service_name
           /\ RegionOf(a) = RegionOf(b))
          => getLog[a].val = getLog[b].val
    /\ \A n \in DOMAIN getLog :
          Cardinality(CreatedFor(getLog[n].service_name, RegionOf(n))) <= 1

C15_Witness ==
    /\ manager.state = "built"
    /\ manager.region_name = Str("r1")
    /\ Len(getLog) = 3
    /\ \A n \in 1..3 : getLog[n].ok /\ getLog[n].service_name = "s3"
    /\ getLog[1].region_name = NoneStr
    /\ getLog[2].region_name = Str("r2")
    /\ getLog[3].region_name = Str("r1")
    /\ getLog[3].val = getLog[1].val
    /\ getLog[2].val # getLog[1].val
    /\ Cardinality(CreatedFor("s3", Str("r1"))) = 1

SdkCalls(op) == {n \in DOMAIN sdkLog : sdkLog[n].op = op}

\* the exception types of src/src/common/exceptions.py for a failed
\* connection and a denied operation
ConnectionOrPermission == {"AWSConnectionError", "AWSPermissionError"}

\* C16: the constructor creates one session with the given profile and
\* region and calls get_caller_identity once before the manager is returned;
\* when the session or the identity check fails it raises a connection or
\* permission error of the library and there is no manager and no cached
\* client.
C16_ConstructorChecksIdentity ==
    manager.state # "none" =>
        /\ Cardinality(SdkCalls("Session")) = 1
        /\ sdkLog[1].op = "Session"
        /\ sdkLog[1].args = <<manager.profile_name, manager.region_name>>
        /\ Cardinality(SdkCalls("get_caller_identity")) <= 1
        /\ manager.state = "built" <=>
              /\ Len(sdkLog) >= 3
              /\ sdkLog[3].op = "get_caller_identity"
              /\ \A n \in 1..3 : sdkLog[n].ok
        /\ manager.state = "failed" =>
              /\ manager.exc.type \in ConnectionOrPermission
              /\ manager.clients = EmptyMap
              /\ getLog = <<>>

\* the calls of _empty_bucket
EmptyingOps == {"list_object_versions", "delete_objects", "list_objects_v2"}

\* the entries that the n-th call of callLog listed
ListedBy(n) ==
    IF callLog[n].op = "list_object_versions" /\ callLog[n].ok
    THEN Range(ObjectsToDelete(callLog[n].resp))
    ELSE {}

\* C17: with force=True every version and delete marker listed is submitted
\* for deletion before delete_bucket is called on the backend, and when a
\* call of the emptying failed delete_bucket does not return a result; with
\* force=False no listing and no deletion of objects is issued.
C17_ForceEmptiesFirst ==
    call.op = "delete_bucket" =>
        /\ \A n \in DOMAIN callLog :
              callLog[n].op = "delete_bucket" =>
                  \A m \in 1..(n - 1) : \A o \in ListedBy(m) :
                      \E d \in (m + 1)..(n - 1) :
                          /\ callLog[d].op = "delete_objects"
                          /\ o \in Range(callLog[d].req.Delete.Objects)
        /\ ~call.force =>
              \A n \in DOMAIN callLog : callLog[n].op \notin EmptyingOps
        /\ (/\ pc = "done"
            /\ \E n \in DOMAIN callLog :
                  callLog[n].op \in EmptyingOps /\ ~callLog[n].ok)
           => ~ret.ok

\* the records batch_touch_objects has appended to its two lists
RecordsAppended ==
    Len(results.touched_objects) + Len(results.failed_objects)

\* C21: batch_touch_objects works through object_keys one position at a time
\* in input order: the backend calls for position i all come before those
\* for position i+1, each is for the key at its position, and when a call
\* for position i is issued the records of positions 1..i-1 are appended.
C21_OneKeyAtATime ==
    [][IsBatch' =>
          /\ \A n \in 1..(Len(callLog') - 1) :
                callLog'[n].i <= callLog'[n + 1].i
          /\ \A n \in DOMAIN callLog' :
                callLog'[n].req.Key = call'.object_keys[callLog'[n].i]
          /\ Len(callLog') > Len(callLog) =>
                RecordsAppended = callLog'[Len(callLog')].i - 1]_vars

C21_Witness ==
    /\ IsBatch /\ pc = "done"
    /\ call.object_keys = <<"y", "x">>
    /\ Len(callLog) = 6
    /\ callLog[3].i = 1 /\ callLog[4].i = 2
    /\ callLog[3].req.Key = "y" /\ callLog[4].req.Key = "x"
    /\ RecordsAppended = 2

\* what the caller passed as custom_metadata, as a dict
CustomOf(c) == IF c.custom_metadata.some THEN c.custom_metadata.v ELSE EmptyMap

\* every copy goes to the caller's bucket with the caller's custom_metadata
\* on top and honours preserve_metadata, and so does every result returned
SameArgumentsForEveryKey ==
    /\ \A n \in CopyCalls :
          LET sent == callLog[n].req.Metadata IN
          /\ callLog[n].req.Bucket = call.bucket_name
          /\ \A k \in DOMAIN CustomOf(call) \ {TouchedAt} :
                k \in DOMAIN sent /\ sent[k] = CustomOf(call)[k]
          /\ IF call.preserve_metadata
             THEN DOMAIN Existing(n) \subseteq DOMAIN sent
             ELSE DOMAIN sent \subseteq DOMAIN CustomOf(call) \cup {TouchedAt}
    /\ \A j \in ReturnedPositions :
          \A k \in DOMAIN CustomOf(call) \ {TouchedAt} :
              /\ k \in DOMAIN touchLog[j].val.metadata
              /\ touchLog[j].val.metadata[k] = CustomOf(call)[k]

\* C22: every key of a call gets the same bucket, preserve_metadata and
\* custom_metadata: the metadata written for a touched key has every entry
\* of custom_metadata other than touched-at, and no step of touch_object or
\* batch_touch_objects changes the caller's custom_metadata.
C22_CustomMetadataForEveryKey ==
    [][call.op \in {"touch", "batch"} =>
          /\ call'.custom_metadata = call.custom_metadata
          /\ call'.preserve_metadata = call.preserve_metadata
          /\ call'.bucket_name = call.bucket_name
          /\ SameArgumentsForEveryKey']_vars

C22_Witness ==
    /\ IsBatch /\ pc = "done" /\ envWrites = 0
    /\ call.object_keys = <<"x", "y">>
    /\ ~call.preserve_metadata
    /\ call.custom_metadata = Some(("a" :> "2") @@ (TouchedAt :> "9"))
    /\ ReturnedPositions = {1, 2}
    /\ store["y"].meta = ("a" :> "2") @@ (TouchedAt :> "T2")
    /\ store["x"].meta = ("a" :> "2") @@ (TouchedAt :> "T1")

\* C23: a successful touch_object reports as previous_last_modified the
\* timestamp its first fetch saw and as new_last_modified the timestamp its
\* re-fetch saw, and the second is later than the first, other writers or
\* not.
C23_TimestampsFromFetches ==
    \A j \in ReturnedPositions :
        LET cs == CallsOf(j)
            v  == touchLog[j].val
        IN  /\ v.previous_last_modified = cs[1].resp.LastModified
            /\ v.new_last_modified = cs[3].resp.LastModified
            /\ v.new_last_modified > v.previous_last_modified

C23_Witness ==
    /\ IsTouch /\ pc = "done" /\ ret.ok
    /\ envWrites = 1
    /\ ret.val.previous_last_modified = 0
    /\ ret.val.new_last_modified = 2
    /\ callLog[2].ok /\ callLog[2].resp.CopyObjectResult.ETag # <<>>
    /\ store[call.object_keys[1]].lm = 2
    /\ "w" \in DOMAIN store[call.object_keys[1]].meta

\* the keys the call was given
Named == Range(call.object_keys)

\* the copies that wrote key k
WritesTo(k) ==
    {n \in CopyCalls : callLog[n].ok /\ callLog[n].req.Key = k}

\* every backend call is for the bucket and a key of the call, and a key is
\* written at most once per occurrence in the input
OnlyNamedPairs ==
    /\ \A n \in DOMAIN callLog :
          /\ callLog[n].req.Bucket = call.bucket_name
          /\ callLog[n].req.Key \in Named
          /\ callLog[n].op = "copy_object" =>
                /\ callLog[n].req.CopySource.Bucket = call.bucket_name
                /\ callLog[n].req.CopySource.Key \in Named
    /\ \A k \in Keys : Cardinality(WritesTo(k)) <= Occurrences(k, N)

\* C24: touch_object and batch_touch_objects read and write only the bucket
\* and keys they were given: no step changes an object that is not named in
\* the call or the set of buckets, and a named key is written at most as
\* often as it occurs in the input.
C24_OnlyNamedObjects ==
    [][call'.op \in {"touch", "batch"} =>
          /\ \A k \in Keys \ Range(call'.object_keys) : store'[k] = store[k]
          /\ buckets' = buckets
          /\ OnlyNamedPairs']_vars

C24_Witness ==
    /\ IsBatch /\ pc = "done"
    /\ call.object_keys = <<"x", "x">>
    /\ Cardinality(WritesTo("x")) = 2
    /\ store["x"].lm = 2
    /\ store["y"] = InitObj("y")

\* m has every entry of c other than touched-at
HasEntries(m, c) ==
    \A k \in DOMAIN c \ {TouchedAt} : k \in DOMAIN m /\ m[k] = c[k]

\* two touch_object calls with preserve_metadata on one object both returned
BothTouched ==
    /\ IsTouch /\ pc = "done" /\ ret.ok
    /\ call.preserve_metadata
    /\ peer.pc = "done" /\ peer.ok
    /\ peer.key = call.object_keys[1]

\* the metadata of the object both touched
Final == store[peer.key].meta

\* the copy of this process was written after the copy of the other
CopiedLast == store[peer.key].lm # peer.copyAt

\* C25 as stated: when two touch_object calls with preserve_metadata and
\* disjoint custom_metadata have run on one object, in whatever interleaving
\* of their backend calls, the object has the custom entries of both.
C25_BothSurvive_Original ==
    BothTouched =>
        /\ HasEntries(Final, CustomOf(call))
        /\ HasEntries(Final, PeerCustom.v)

\* C25: a touch_object with preserve_metadata keeps what its first fetch
\* saw, not what is on the object when its copy executes.  Of two such
\* calls on one object the final metadata has the custom entries of the one
\* whose copy came last, and has those of the other exactly when the first
\* fetch of the last copier already saw them.
C25_LastCopyWins ==
    BothTouched =>
        IF CopiedLast
        THEN /\ HasEntries(Final, CustomOf(call))
             /\ HasEntries(Final, PeerCustom.v)
                   <=> HasEntries(callLog[1].resp.Metadata, PeerCustom.v)
        ELSE /\ HasEntries(Final, PeerCustom.v)
             /\ HasEntries(Final, CustomOf(call))
                   <=> HasEntries(peer.head_response.Metadata, CustomOf(call))

\* both fetched before either copied: the entry of the first copier is lost
C25_Witness ==
    /\ BothTouched
    /\ CopiedLast
    /\ call.custom_metadata = Some(("a" :> "2") @@ (TouchedAt :> "9"))
    /\ peer.copyAt = 1
    /\ callLog[1].resp.LastModified = 0
    /\ Final["a"] = "2"
    /\ "w" \notin DOMAIN Final

\* C26: the client get_client returns for a service and an effective region
\* was created for exactly that service and that region, so no two different
\* pairs share a cache entry, also when no region is set.
C26_EntryPerPair ==
    \A n \in DOMAIN getLog :
        getLog[n].ok =>
            /\ getLog[n].val.service = getLog[n].service_name
            /\ getLog[n].val.region = RegionOf(n)

\* the key of the cache entry that the get_client just logged asked for
AskedKey ==
    LET g == getLog'[Len(getLog')] IN
    ClientKey(g.service_name,
              EffectiveRegion(g.region_name, manager.region_name))

\* every cache entry is a client that the SDK created
EntriesAreClients ==
    \A k \in DOMAIN manager.clients :
        LET c == manager.clients[k] IN
        /\ c.id \in DOMAIN sdkLog
        /\ sdkLog[c.id].op = "client" /\ sdkLog[c.id].ok
        /\ sdkLog[c.id].args = <<c.service, c.region>>

\* C27: a get_client whose client creation fails leaves the cache as it
\* was, the cache never holds anything but created clients, and a
\* get_client for a key that is not in the cache asks the session to create
\* the client, also after an earlier failure for that key.
C27_FailedCreationNotCached ==
    [][Len(getLog') = Len(getLog) + 1 =>
          /\ ~getLog'[Len(getLog')].ok => manager'.clients = manager.clients
          /\ AskedKey \notin DOMAIN manager.clients =>
                /\ Len(sdkLog') = Len(sdkLog) + 1
                /\ sdkLog'[Len(sdkLog')].op = "client"
                /\ getLog'[Len(getLog')].ok = sdkLog'[Len(sdkLog')].ok
          /\ EntriesAreClients']_vars

C27_Witness ==
    /\ manager.state = "built"
    /\ Len(getLog) = 2
    /\ ~getLog[1].ok /\ getLog[2].ok
    /\ getLog[1].service_name = "s3" /\ getLog[2].service_name = "s3"
    /\ getLog[1].region_name = Str("r2") /\ getLog[2].region_name = Str("r2")
    /\ Len(sdkLog) = 5
    /\ ~sdkLog[4].ok /\ sdkLog[5].ok
    /\ sdkLog[4].args = sdkLog[5].args
    /\ DOMAIN manager.clients = {"s3_r2"}
    /\ manager.clients["s3_r2"].id = 5

====
